---- MODULE Spec2Model ----
(***************************************************************************)
(* A model of django_searchquery/search.py: the Search and SearchChunk     *)
(* classes and the module-level helpers.  Strings are sequences of         *)
(* one-character strings, numbers are fixed-point integers (Scale units    *)
(* per 1), dates are integers yyyymmdd (tzinfo = None, time 00:00:00) and  *)
(* a queryset is the tree of filter/exclude calls that built it, together  *)
(* with an evaluator giving the rows such a tree selects.                  *)
(***************************************************************************)
EXTENDS Integers, Sequences, FiniteSets, TLC

(***************************************************************************)
(* Bounds of the model.                                                    *)
(***************************************************************************)
MaxTokens == 2      \* tokens written in one search string
MaxCalls == 2       \* calls of Search.queryset() on one Search object
MaxDecimals == 2    \* decimal places the fixed-point numbers keep

Scale == 10 ^ MaxDecimals

(***************************************************************************)
(* Strings.                                                                *)
(***************************************************************************)
Chars(s) == [i \in 1..Len(s) |-> SubSeq(s, i, i)]

UpperAlpha == Chars("ABCDEFGHIJKLMNOPQRSTUVWXYZ")
LowerAlpha == Chars("abcdefghijklmnopqrstuvwxyz")
Digits == Chars("0123456789")
\* collation order used to compare two strings
Alphabet == Chars(" &',-.0123456789:<=>ABCDEFGHIJKLMNOPQRSTUVWXYZ[]_abcdefghijklmnopqrstuvwxyz|")

IndexOf(seq, c) == IF \E i \in 1..Len(seq) : seq[i] = c
                   THEN CHOOSE i \in 1..Len(seq) : seq[i] = c /\ \A j \in 1..(i-1) : seq[j] # c
                   ELSE 0

IsDigit(c) == IndexOf(Digits, c) # 0

\* str.lower()
lower_char(c, k) == IF k # 0 THEN LowerAlpha[k] ELSE c
lower(s) == [i \in 1..Len(s) |-> lower_char(s[i], IndexOf(UpperAlpha, s[i]))]

\* str.find(sub) + 1: the position of the first occurrence, 0 when absent
Find(s, sub) ==
    LET hits == {i \in 1..(Len(s) - Len(sub) + 1) : SubSeq(s, i, i + Len(sub) - 1) = sub}
    IN  IF hits = {} THEN 0 ELSE CHOOSE i \in hits : \A j \in hits : i <= j

\* sub in s
Contains(s, sub) == Find(s, sub) # 0

\* str.replace(a, b) for one-character a and b
replace(s, a, b) == [i \in 1..Len(s) |-> IF s[i] = a THEN b ELSE s[i]]

\* str.split(sep): every piece between occurrences of the one-character sep
RECURSIVE split_sep(_, _)
split_sep(s, sep) ==
    IF Find(s, <<sep>>) = 0 THEN <<s>>
    ELSE <<SubSeq(s, 1, Find(s, <<sep>>) - 1)>> \o split_sep(SubSeq(s, Find(s, <<sep>>) + 1, Len(s)), sep)

\* str.split(): the non-empty pieces between runs of whitespace
split_ws(s) == SelectSeq(split_sep(s, " "), LAMBDA p : p # <<>>)

\* str.lstrip(c) / str.rstrip(c)
RECURSIVE lstrip(_, _)
lstrip(s, c) == IF s # <<>> /\ s[1] = c THEN lstrip(Tail(s), c) ELSE s
RECURSIVE rstrip(_, _)
rstrip(s, c) == IF s # <<>> /\ s[Len(s)] = c THEN rstrip(SubSeq(s, 1, Len(s) - 1), c) ELSE s

AllDigits(s) == s # <<>> /\ \A i \in 1..Len(s) : IsDigit(s[i])

\* the value of a string of decimal digits
RECURSIVE DigitsVal(_)
DigitsVal(s) == IF s = <<>> THEN 0
                ELSE 10 * DigitsVal(SubSeq(s, 1, Len(s) - 1)) + (IndexOf(Digits, s[Len(s)]) - 1)

\* lexicographic s < t
RECURSIVE StrLess(_, _)
StrLess(s, t) ==
    IF t = <<>> THEN FALSE
    ELSE IF s = <<>> THEN TRUE
    ELSE IF s[1] = t[1] THEN StrLess(Tail(s), Tail(t))
    ELSE IndexOf(Alphabet, s[1]) < IndexOf(Alphabet, t[1])

(***************************************************************************)
(* Module constants.                                                       *)
(***************************************************************************)
NONE == {Chars("none"), Chars("null")}
OPERATIONS == [o \in {"=", ">", ">=", "<=", "<", ":"} |->
                 CASE o = "="  -> "__iexact"
                   [] o = ">"  -> "__gt"
                   [] o = ">=" -> "__gte"
                   [] o = "<=" -> "__lte"
                   [] o = "<"  -> "__lt"
                   [] o = ":"  -> "__icontains"]
\* REVERSEOP with each comparison mirrored instead of complemented
REVERSEOP_mirrored == [q \in {"__gt", "__gte", "__lte", "__lt"} |->
                 CASE q = "__gt"  -> "__lt"
                   [] q = "__gte" -> "__lte"
                   [] q = "__lte" -> "__gte"
                   [] q = "__lt"  -> "__gt"]
REVERSEOP == [q \in {"__gt", "__gte", "__lte", "__lt"} |->
                 CASE q = "__gt"  -> "__lte"
                   [] q = "__gte" -> "__lt"
                   [] q = "__lte" -> "__gt"
                   [] q = "__lt"  -> "__gte"]
STOPWORDS == {Chars("and"), Chars("&&"), Chars("&"), Chars("or"), Chars("||"), Chars("|")}
MONTHNAMES == {Chars(m) : m \in {"january", "february", "march", "april", "may", "june", "july",
                                 "august", "september", "october", "november", "december",
                                 "jan", "feb", "mar", "apr", "jun", "jul", "aug", "sep",
                                 "oct", "nov", "dec", "sept"}}
FIELDTYPES == [BOOL |-> "bool", DATE |-> "date", NUM |-> "numeric", STR |-> "string"]

\* sorted(OPERATIONS.keys(), key=len, reverse=True): a stable sort of the
\* keys in their order of definition
SortedOperations == <<">=", "<=", "=", ">", "<", ":">>

(***************************************************************************)
(* Values.  One record shape for every Python value a chunk can hold:      *)
(* kind "None", "str" (s), "num" (n, in 1/Scale units), "bool" (n = 1 for  *)
(* True), "date" (n = yyyymmdd) or "set" (set, a set of such values).      *)
(***************************************************************************)
Val(kind, n, s) == [kind |-> kind, n |-> n, s |-> s, set |-> {}]
PyNone == Val("None", 0, <<>>)
StrVal(s) == Val("str", 0, s)
NumVal(n) == Val("num", n, <<>>)
BoolVal(b) == Val("bool", IF b THEN 1 ELSE 0, <<>>)
DateVal(d) == Val("date", d, <<>>)
SetVal(members) == [kind |-> "set", n |-> 0, s |-> <<>>, set |-> members]

\* what a call gives: a value, or the exception it raised
Returned(v) == [exc |-> "", msg |-> "", val |-> v]
Raised(exc, msg) == [exc |-> exc, msg |-> msg, val |-> PyNone]

(***************************************************************************)
(* Dates (datetime.datetime at 00:00:00, relativedelta, timedelta).        *)
(***************************************************************************)
MkDate(y, m, d) == y * 10000 + m * 100 + d
YearOf(dt) == dt \div 10000
MonthOf(dt) == (dt \div 100) % 100
DayOf(dt) == dt % 100
IsLeap(y) == (y % 4 = 0 /\ y % 100 # 0) \/ y % 400 = 0
DaysInMonth(y, m) == IF m = 2 THEN (IF IsLeap(y) THEN 29 ELSE 28)
                     ELSE IF m \in {4, 6, 9, 11} THEN 30 ELSE 31
ClampDate(y, m, d) == MkDate(y, m, IF d > DaysInMonth(y, m) THEN DaysInMonth(y, m) ELSE d)
\* dt + relativedelta(years=k)
AddYears(dt, k) == ClampDate(YearOf(dt) + k, MonthOf(dt), DayOf(dt))
\* dt + relativedelta(months=1)
AddMonth(dt) == IF MonthOf(dt) = 12 THEN ClampDate(YearOf(dt) + 1, 1, DayOf(dt))
                ELSE ClampDate(YearOf(dt), MonthOf(dt) + 1, DayOf(dt))
\* dt + datetime.timedelta(days=1)
AddDay(dt) == IF DayOf(dt) < DaysInMonth(YearOf(dt), MonthOf(dt)) THEN dt + 1
              ELSE IF MonthOf(dt) < 12 THEN MkDate(YearOf(dt), MonthOf(dt) + 1, 1)
              ELSE MkDate(YearOf(dt) + 1, 1, 1)

\* the day the search runs
Today == MkDate(2023, 6, 1)

(***************************************************************************)
(* Module-level helpers.                                                   *)
(***************************************************************************)
\* the literal without its sign; the value with the sign of the literal
Unsigned(value) == IF value # <<>> /\ value[1] \in {"-", "+"} THEN Tail(value) ELSE value
Signed(value, mag) == IF value[1] = "-" THEN 0 - mag ELSE mag

\* float(value) for the decimal spellings [-]d+, [-]d+.d*, [-].d+ ; the
\* search strings of the model use no exponent, inf, nan or underscore forms
float_digits(value, ip, fp) ==
    IF /\ ip \o fp # <<>>
       /\ \A i \in 1..Len(ip) : IsDigit(ip[i])
       /\ \A i \in 1..Len(fp) : IsDigit(fp[i])
    THEN Returned(NumVal(Signed(value, DigitsVal(ip) * Scale + (DigitsVal(fp) * Scale) \div (10 ^ Len(fp)))))
    ELSE Raised("ValueError", "could not convert string to float")
float_split(value, body, dot) ==
    float_digits(value, IF dot = 0 THEN body ELSE SubSeq(body, 1, dot - 1),
                 IF dot = 0 THEN <<>> ELSE SubSeq(body, dot + 1, Len(body)))
float_unsigned(value, body) == float_split(value, body, Find(body, <<".">>))
float(value) == float_unsigned(value, Unsigned(value))

\* int(value) for [-]d+
int_unsigned(value, body) ==
    IF AllDigits(body) THEN Returned(NumVal(Signed(value, DigitsVal(body) * Scale)))
    ELSE Raised("ValueError", "invalid literal for int()")
int(value) == int_unsigned(value, Unsigned(value))

is_float(value) == float(value).exc = ""

is_int(value) == int(value).exc = ""

\* re.match(r'^20\d\d$', value.lower())
match_year(v) == Len(v) = 4 /\ v[1] = "2" /\ v[2] = "0" /\ IsDigit(v[3]) /\ IsDigit(v[4])
is_year(value) == match_year(lower(value))

is_month_parts(parts) ==
    \/ Len(parts) = 1 /\ parts[1] \in MONTHNAMES
    \/ Len(parts) = 2 /\ is_year(parts[1]) /\ parts[2] \in MONTHNAMES
    \/ Len(parts) = 2 /\ parts[1] \in MONTHNAMES /\ is_year(parts[2])
is_month(value) == is_month_parts(split_ws(lower(value)))

modifier_bool_lower(v) ==
    IF v \in {Chars("t"), Chars("true"), Chars("1"), Chars("y"), Chars("yes")}
    THEN Returned(BoolVal(TRUE))
    ELSE IF v \in {Chars("f"), Chars("false"), Chars("0"), Chars("n"), Chars("no")}
    THEN Returned(BoolVal(FALSE))
    ELSE Raised("SearchError", "Invalid bool value")
modifier_bool(value) == modifier_bool_lower(lower(value))

\* re.match(r'^\-*\d+$', value)
MatchesInt(value) == AllDigits(lstrip(value, "-"))

\* re.match(r'^\-*\d+.\d+$', value): the dot of the pattern is unescaped and
\* matches any character
MatchesFloatBody(body) ==
    \E k \in 2..(Len(body) - 1) :
        AllDigits(SubSeq(body, 1, k - 1)) /\ AllDigits(SubSeq(body, k + 1, Len(body)))
MatchesFloat(value) == MatchesFloatBody(lstrip(value, "-"))

modifier_numeric(value) ==
    IF MatchesInt(value) THEN int(value)
    ELSE IF MatchesFloat(value) THEN float(value)
    ELSE Raised("SearchError", "Invalid int value")

\* timelib.strtodatetime(value), truncated to the day, for the spellings the
\* library is given in the model: yyyy-mm-dd, a month name (the month in the
\* current year, on today's day of the month) and a month name with a
\* year; anything else is a parse failure
NoDate == Raised("ValueError", "unable to parse date")
monthnum(m) == CASE m \in {Chars("jan"), Chars("january")} -> 1
                 [] m \in {Chars("feb"), Chars("february")} -> 2
                 [] m \in {Chars("dec"), Chars("december")} -> 12
                 [] OTHER -> 0
iso_date(y, m, d) ==
    IF m \in 1..12 /\ d \in 1..DaysInMonth(y, m) THEN Returned(DateVal(MkDate(y, m, d))) ELSE NoDate
month_only(m) ==
    IF m # 0 THEN Returned(DateVal(ClampDate(YearOf(Today), m, DayOf(Today)))) ELSE NoDate
month_year(m, y) ==
    IF m # 0 /\ AllDigits(y) /\ Len(y) = 4 THEN Returned(DateVal(MkDate(DigitsVal(y), m, 1))) ELSE NoDate
strtodatetime_lower(v, parts) ==
    IF /\ Len(v) = 10 /\ v[5] = "-" /\ v[8] = "-"
       /\ AllDigits(SubSeq(v, 1, 4)) /\ AllDigits(SubSeq(v, 6, 7)) /\ AllDigits(SubSeq(v, 9, 10))
    THEN iso_date(DigitsVal(SubSeq(v, 1, 4)), DigitsVal(SubSeq(v, 6, 7)), DigitsVal(SubSeq(v, 9, 10)))
    ELSE IF Len(parts) = 1 THEN month_only(monthnum(parts[1]))
    ELSE IF Len(parts) = 2 /\ monthnum(parts[1]) # 0 THEN month_year(monthnum(parts[1]), parts[2])
    ELSE IF Len(parts) = 2 THEN month_year(monthnum(parts[2]), parts[1])
    ELSE NoDate
strtodatetime(value) == strtodatetime_lower(lower(value), split_ws(lower(value)))

\* the except clause of modifier_date
date_or_error(r) == IF r.exc = "" THEN r ELSE Raised("SearchError", "Invalid date format")
modifier_date_spaced(v) ==
    IF is_year(v) THEN Returned(DateVal(MkDate(DigitsVal(v), 1, 1)))
    ELSE date_or_error(strtodatetime(v))
modifier_date(value) == modifier_date_spaced(replace(value, "_", " "))

\* a modifier the caller attached to a field (SearchField.modifier)
modifier_status(value) ==
    IF value = Chars("open") THEN Returned(NumVal(1 * Scale))
    ELSE IF value = Chars("closed") THEN Returned(NumVal(2 * Scale))
    ELSE Raised("SearchError", "Unknown status")

DEFAULT_MODIFIER(value) == Returned(StrVal(value))

\* calling the modifier named m
CallModifier(m, value) ==
    CASE m = "DEFAULT_MODIFIER" -> DEFAULT_MODIFIER(value)
      [] m = "modifier_bool"    -> modifier_bool(value)
      [] m = "modifier_numeric" -> modifier_numeric(value)
      [] m = "modifier_date"    -> modifier_date(value)
      [] m = "modifier_status"  -> modifier_status(value)

(***************************************************************************)
(* The schema the Search is constructed with (SearchField objects keyed    *)
(* by fieldstr) and the rows of the base queryset.                         *)
(***************************************************************************)
SearchField(fieldstr, fieldtype, field, modifier) ==
    [fieldstr |-> Chars(fieldstr), fieldtype |-> fieldtype, field |-> field, modifier |-> modifier]

FieldList == <<SearchField("name", "string", "person__name", ""),
               SearchField("tag", "string", "tag", ""),
               SearchField("price", "numeric", "price", ""),
               SearchField("status", "numeric", "status_id", "modifier_status"),
               SearchField("created", "date", "created_at", ""),
               SearchField("active", "bool", "is_active", "")>>

\* {f.fieldstr: f for f in fields}: a later field replaces an earlier one
\* of the same fieldstr
fields_dict(list) ==
    [k \in {list[i].fieldstr : i \in 1..Len(list)} |->
        list[CHOOSE i \in 1..Len(list) :
                list[i].fieldstr = k /\ \A j \in (i+1)..Len(list) : list[j].fieldstr # k]]
fields == fields_dict(FieldList)

\* self.fields.values() in insertion order, restricted to one field type
FieldsOfType(t) == SelectSeq(FieldList, LAMBDA f : f.fieldtype = t)

NoField == [fieldstr |-> <<>>, fieldtype |-> "", field |-> "", modifier |-> ""]

(***************************************************************************)
(* SearchChunk.  A chunk is a record of the attributes __init__ sets;      *)
(* operation and qoperation are "None" while unset, error is "" while      *)
(* unset, field is PyNone or a string value.                               *)
(***************************************************************************)
NewChunk(chunkstr) ==
    [chunkstr |-> chunkstr, exclude |-> FALSE, field |-> PyNone, operation |-> "None",
     value |-> <<>>, qfield |-> NoField, qoperation |-> "None", qvalue |-> PyNone,
     error |-> "", filterstr |-> <<>>]

\* SearchChunk.searchtype, read once the field is known to be in the schema
searchtype(chunk) ==
    IF chunk.operation = ":" THEN FIELDTYPES.STR
    ELSE fields[chunk.field.s].fieldtype

is_value_list(chunk) ==
    IF Len(chunk.value) = 0 THEN FALSE
    ELSE chunk.value[1] = "[" /\ chunk.value[Len(chunk.value)] = "]"

\* self.search.fields.get(self.field): the field, NoField when absent
fields_get(key) == IF key \in DOMAIN fields THEN fields[key] ELSE NoField

\* _get_qfield without the comparison of searchtype and fieldtype
get_qfield_notypecheck(chunk) ==
    IF fields_get(chunk.field.s) = NoField THEN Raised("SearchError", "Unknown field")
    ELSE [exc |-> "", msg |-> "", val |-> fields_get(chunk.field.s)]

\* the messages 'Unknown field: %s' and 'Unknown %s field: %s' are kept
\* without their arguments; the second is written "Unknown typed field"
get_qfield_of(chunk, field) ==
    IF field = NoField THEN Raised("SearchError", "Unknown field")
    ELSE IF searchtype(chunk) # field.fieldtype THEN Raised("SearchError", "Unknown typed field")
    ELSE [exc |-> "", msg |-> "", val |-> field]
get_qfield(chunk) == get_qfield_of(chunk, fields_get(chunk.field.s))

\* the loop over values.split(','): the first member whose coercion raises
\* ends the loop with that exception
first_raised_or_set(res) ==
    IF \E i \in 1..Len(res) : res[i].exc # ""
    THEN res[CHOOSE i \in 1..Len(res) : res[i].exc # "" /\ \A j \in 1..(i - 1) : res[j].exc = ""]
    ELSE Returned(SetVal({res[i].val : i \in 1..Len(res)}))
coerce_members(modifier, values) ==
    first_raised_or_set([i \in 1..Len(values) |-> CallModifier(modifier, values[i])])

\* _parse_value_list without the check of the operation
parse_value_list_anyop(chunk, modifier) ==
    coerce_members(modifier, split_sep(rstrip(lstrip(chunk.value, "["), "]"), ","))

parse_value_list(chunk, modifier) ==
    IF chunk.operation # "="
    THEN Raised("SearchError", "Invalid operation is using list search")
    ELSE coerce_members(modifier, split_sep(rstrip(lstrip(chunk.value, "["), "]"), ","))

\* the modifier _get_qvalue picks
modifier_of_type(fieldtype) ==
    IF fieldtype = FIELDTYPES.BOOL THEN "modifier_bool"
    ELSE IF fieldtype = FIELDTYPES.NUM THEN "modifier_numeric"
    ELSE IF fieldtype = FIELDTYPES.DATE THEN "modifier_date"
    ELSE "DEFAULT_MODIFIER"
pick_modifier(chunk) ==
    IF chunk.qfield.modifier # "" THEN chunk.qfield.modifier
    ELSE modifier_of_type(searchtype(chunk))
process_modifier(chunk, modifier) ==
    IF is_value_list(chunk) THEN parse_value_list(chunk, modifier)
    ELSE CallModifier(modifier, chunk.value)

\* _get_qvalue without the test for none and null
get_qvalue_nonone(chunk) == process_modifier(chunk, pick_modifier(chunk))

get_qvalue(chunk) ==
    IF lower(chunk.value) \in NONE THEN Returned(BoolVal(TRUE))
    ELSE process_modifier(chunk, pick_modifier(chunk))

get_qoperation(chunk) ==
    IF lower(chunk.value) \in NONE THEN "__isnull"
    ELSE IF is_value_list(chunk) /\ chunk.operation = "=" THEN "__in"
    ELSE IF chunk.qvalue.kind = "bool" THEN ""
    ELSE OPERATIONS[chunk.operation]

\* the first operation of the sorted list that occurs in chunkstr, "" if none
first_operation(chunkstr) ==
    IF \E i \in 1..Len(SortedOperations) : Contains(chunkstr, Chars(SortedOperations[i]))
    THEN SortedOperations[CHOOSE i \in 1..Len(SortedOperations) :
                             /\ Contains(chunkstr, Chars(SortedOperations[i]))
                             /\ \A j \in 1..(i - 1) : ~Contains(chunkstr, Chars(SortedOperations[j]))]
    ELSE ""

\* _parse_chunkstr, step by step; each step gives the chunk constructed or
\* the exception that leaves the constructor (only SearchError is caught)
Constructed(chunk) == [exc |-> "", chunk |-> chunk]
Aborted(exc, chunk) == [exc |-> exc, chunk |-> chunk]

\* self.qoperation = self._get_qoperation()
parse_qoperation(chunk) == Constructed([chunk EXCEPT !.qoperation = get_qoperation(chunk)])

\* self.qvalue = self._get_qvalue()
parse_qvalue_of(chunk, qv) ==
    IF qv.exc = "SearchError" THEN Constructed([chunk EXCEPT !.error = qv.msg])
    ELSE IF qv.exc # "" THEN Aborted(qv.exc, chunk)
    ELSE parse_qoperation([chunk EXCEPT !.qvalue = qv.val])
parse_qvalue(chunk) == parse_qvalue_of(chunk, get_qvalue(chunk))

\* self.qfield = self._get_qfield()
parse_qfield_of(chunk, qf) ==
    IF qf.exc # "" THEN Constructed([chunk EXCEPT !.error = qf.msg])
    ELSE parse_qvalue([chunk EXCEPT !.qfield = qf.val])
parse_qfield(chunk) == parse_qfield_of(chunk, get_qfield(chunk))

\* parts = chunkstr.split(operation, 1) for the operation found
parse_parts(chunk, chunkstr, operation, at) ==
    parse_qfield([chunk EXCEPT !.field = StrVal(SubSeq(chunkstr, 1, at - 1)),
                               !.operation = operation,
                               !.value = SubSeq(chunkstr, at + Len(operation), Len(chunkstr))])
parse_operation(chunk, chunkstr, operation) ==
    IF operation = "" THEN Constructed(chunk)
    ELSE parse_parts(chunk, chunkstr, operation, Find(chunkstr, Chars(operation)))

\* the default value and operation, then the operations
parse_defaults(token, exclude, chunkstr) ==
    parse_operation([NewChunk(token) EXCEPT !.exclude = exclude, !.value = chunkstr,
                                            !.qvalue = StrVal(chunkstr), !.operation = ":"],
                    chunkstr, first_operation(chunkstr))
parse_exclude(token, exclude) == parse_defaults(token, exclude, IF exclude THEN Tail(token) ELSE token)

\* SearchChunk.__init__ with _parse_chunkstr; chunkstr[0] of the empty
\* token raises IndexError
parse_chunkstr(token) ==
    IF token = <<>> THEN Aborted("IndexError", NewChunk(token))
    ELSE parse_exclude(token, token[1] = "-")

(***************************************************************************)
(* Querysets.  A queryset is the tree of the calls that built it:          *)
(*   "all"     the base queryset                                           *)
(*   "filter"  basequeryset.filter(...): every kid holds                   *)
(*   "exclude" basequeryset.exclude(...): not every kid holds              *)
(*   "and"/"or" qs & qs, qs | qs, Q & Q, Q | Q                             *)
(*   "leaf"    one lookup, path + lookup = value                           *)
(*   "None"    Python None (no queryset)                                   *)
(***************************************************************************)
Node(op, path, lookup, value, kids) ==
    [op |-> op, path |-> path, lookup |-> lookup, value |-> value, kids |-> kids]
basequeryset == Node("all", "", "", PyNone, <<>>)
NoQueryset == Node("None", "", "", PyNone, <<>>)
Leaf(path, lookup, value) == Node("leaf", path, lookup, value, <<>>)
Filter(kids) == Node("filter", "", "", PyNone, kids)
Exclude(kids) == Node("exclude", "", "", PyNone, kids)
And(a, b) == Node("and", "", "", PyNone, <<a, b>>)
Or(a, b) == Node("or", "", "", PyNone, <<a, b>>)

\* functools.reduce(lambda x, y: x <op> y, subqueries) on a non-empty list
RECURSIVE reduce(_, _)
reduce(op, subqueries) ==
    IF Len(subqueries) = 1 THEN subqueries[1]
    ELSE Node(op, "", "", PyNone,
              <<reduce(op, SubSeq(subqueries, 1, Len(subqueries) - 1)), subqueries[Len(subqueries)]>>)

\* the rows of the table behind the base queryset; PyNone is a NULL column
Row(pk, name, tag, price, status, created, active) ==
    [pk |-> NumVal(pk * Scale), person__name |-> name, tag |-> tag, price |-> price,
     status_id |-> status, created_at |-> created, is_active |-> active]

Rows == {
    Row(1, StrVal(Chars("Bob")), StrVal(Chars("a")), NumVal(5 * Scale), NumVal(1 * Scale),
        DateVal(MkDate(2023, 1, 15)), BoolVal(TRUE)),
    Row(2, StrVal(Chars("amy5")), StrVal(Chars("b")), NumVal((525 * Scale) \div 100), NumVal(2 * Scale),
        DateVal(MkDate(2024, 1, 1)), BoolVal(FALSE)),
    Row(3, StrVal(Chars("bobby")), StrVal(Chars("c")), NumVal(0 - 5 * Scale), NumVal(2 * Scale),
        DateVal(MkDate(2022, 12, 31)), BoolVal(TRUE)),
    Row(4, StrVal(Chars("carl")), PyNone, NumVal((51 * Scale) \div 10), PyNone,
        DateVal(MkDate(2024, 2, 28)), PyNone),
    Row(5, PyNone, StrVal(Chars("ab")), PyNone, NumVal(5 * Scale),
        PyNone, BoolVal(FALSE)),
    Row(6, StrVal(Chars("dan")), StrVal(Chars("c")), NumVal(6 * Scale), NumVal(2 * Scale),
        DateVal(MkDate(2023, 12, 1)), BoolVal(TRUE)),
    Row(7, StrVal(Chars("eve")), StrVal(Chars("c")), NumVal(5 * Scale), NumVal(5 * Scale),
        DateVal(MkDate(2023, 1, 1)), BoolVal(FALSE)),
    Row(8, StrVal(Chars("zed")), StrVal(Chars("x5")), NumVal(7 * Scale), NumVal(1 * Scale),
        DateVal(MkDate(2023, 12, 31)), PyNone),
    Row(9, StrVal(Chars("bob")), StrVal(Chars("x")), NumVal(1 * Scale), NumVal(1 * Scale),
        DateVal(MkDate(2024, 2, 29)), BoolVal(TRUE))}

SameVal(a, b) == a.kind = b.kind /\ a.n = b.n /\ a.s = b.s

\* a < b for two values of one kind
ValLess(a, b) == IF a.kind = "str" THEN StrLess(a.s, b.s) ELSE a.n < b.n

\* whether a column that is not NULL satisfies a lookup
LookupHolds(col, lookup, v) ==
    CASE lookup = "__icontains" -> Contains(lower(col.s), lower(v.s))
      [] lookup = "__iexact" -> IF col.kind = "str" THEN lower(col.s) = lower(v.s) ELSE col.n = v.n
      [] lookup = "" -> col.n = v.n /\ col.s = v.s
      [] lookup = "__in" -> \E m \in v.set : SameVal(m, col)
      [] lookup = "__gt" -> ValLess(v, col)
      [] lookup = "__gte" -> ~ValLess(col, v)
      [] lookup = "__lt" -> ValLess(col, v)
      [] lookup = "__lte" -> ~ValLess(v, col)

\* whether a row satisfies one lookup; a comparison with a NULL column is
\* never satisfied
ColumnHolds(col, leaf) ==
    IF leaf.lookup = "__isnull" THEN (col.kind = "None") = (leaf.value.n = 1)
    ELSE IF col.kind = "None" THEN FALSE
    ELSE LookupHolds(col, leaf.lookup, leaf.value)
LeafHolds(row, leaf) == ColumnHolds(row[leaf.path], leaf)

\* whether the queryset selects the row
RECURSIVE Selects(_, _)
Selects(qs, row) ==
    CASE qs.op = "all" -> TRUE
      [] qs.op = "leaf" -> LeafHolds(row, qs)
      [] qs.op \in {"filter", "and"} -> \A i \in 1..Len(qs.kids) : Selects(qs.kids[i], row)
      [] qs.op = "exclude" -> ~(\A i \in 1..Len(qs.kids) : Selects(qs.kids[i], row))
      [] qs.op = "or" -> \E i \in 1..Len(qs.kids) : Selects(qs.kids[i], row)

RowsOf(qs) == {row \in Rows : Selects(qs, row)}

(***************************************************************************)
(* SearchChunk.queryset and the builders it calls.  Each gives the         *)
(* exception raised, the queryset built and the filterstr it leaves.       *)
(***************************************************************************)
Built(qs, filterstr) == [exc |-> "", qs |-> qs, filterstr |-> filterstr]
Failed(exc, filterstr) == [exc |-> exc, qs |-> NoQueryset, filterstr |-> filterstr]

\* dict((v, k) for k, v in OPERATIONS.items()).get(qoperation)
opstr(qoperation) ==
    IF qoperation \in {"__iexact", "__gt", "__gte", "__lte", "__lt", "__icontains"}
    THEN CHOOSE o \in DOMAIN OPERATIONS : OPERATIONS[o] = qoperation
    ELSE "None"

\* _update_filterstr: the piece appended to filterstr, kept as its parts
update_filterstr(chunk, filterstr, join, qoperation, qvalue) ==
    Append(filterstr,
           IF chunk.qfield = NoField
           THEN [join |-> join, exclude |-> chunk.exclude, fieldstr |-> <<>>, opstr |-> "", value |-> qvalue]
           ELSE [join |-> join, exclude |-> chunk.exclude, fieldstr |-> chunk.qfield.fieldstr,
                 opstr |-> opstr(qoperation), value |-> qvalue])

string_subqueries(chunk, stringfields) ==
    [i \in 1..Len(stringfields) |->
        IF chunk.exclude
        THEN Exclude(<<Leaf(stringfields[i].field, "__icontains", chunk.qvalue)>>)
        ELSE Filter(<<Leaf(stringfields[i].field, "__icontains", chunk.qvalue)>>)]
queryset_generic_string(chunk) == string_subqueries(chunk, FieldsOfType("string"))

\* abs(float(self.qvalue)), len(self.qvalue.split('.')[1]) and
\* round(.1 ** sigdigs, sigdigs)
abs(x) == IF x < 0 THEN 0 - x ELSE x
sigdigs_of(s) == IF Contains(s, <<".">>) THEN Len(split_sep(s, ".")[2]) ELSE 0
variance_of(sigdigs) == Scale \div (10 ^ sigdigs)
num_subqueries(numfields, qvalue, variance) ==
    [i \in 1..Len(numfields) |->
        Or(Filter(<<Leaf(numfields[i].field, "__gte", NumVal(qvalue)),
                    Leaf(numfields[i].field, "__lt", NumVal(qvalue + variance))>>),
           Filter(<<Leaf(numfields[i].field, "__lte", NumVal(0 - qvalue)),
                    Leaf(numfields[i].field, "__gt", NumVal(0 - qvalue - variance))>>))]

\* _queryset_generic_num with a variance of 1 whatever the decimals written
queryset_generic_num_unitvariance(chunk) ==
    IF ~is_float(chunk.qvalue.s) THEN <<>>
    ELSE num_subqueries(FieldsOfType("numeric"), abs(float(chunk.qvalue.s).val.n), Scale)

queryset_generic_num(chunk) ==
    IF ~is_float(chunk.qvalue.s) THEN <<>>
    ELSE num_subqueries(FieldsOfType("numeric"), abs(float(chunk.qvalue.s).val.n),
                        variance_of(sigdigs_of(chunk.qvalue.s)))

\* reduce() of an empty list raises TypeError
reduce_subqueries(chunk, filterstr, subqueries) ==
    IF subqueries = <<>> THEN Failed("TypeError", filterstr)
    ELSE IF chunk.exclude THEN Built(reduce("and", subqueries), filterstr)
    ELSE Built(reduce("or", subqueries), filterstr)
queryset_generic(chunk) ==
    reduce_subqueries(chunk, update_filterstr(chunk, chunk.filterstr, "", chunk.qoperation, chunk.qvalue),
                      queryset_generic_string(chunk) \o queryset_generic_num(chunk))

filter_or_exclude(chunk, filterstr, leaf) ==
    IF chunk.exclude THEN Built(Exclude(<<leaf>>), filterstr)
    ELSE Built(Filter(<<leaf>>), filterstr)
queryset_advanced(chunk) ==
    filter_or_exclude(chunk, update_filterstr(chunk, chunk.filterstr, "", chunk.qoperation, chunk.qvalue),
                      Leaf(chunk.qfield.field, chunk.qoperation, chunk.qvalue))

\* _min_max_dates: datetime.datetime.today() takes no keyword argument, so
\* the month branch raises TypeError at the call today(tzinfo=...)
DateRange(mindate, maxdate) == [exc |-> "", mindate |-> mindate, maxdate |-> maxdate]
year_range(mindate) == DateRange(mindate, AddYears(mindate, 1))
min_max_dates_of(chunk, value) ==
    IF is_year(value) THEN year_range(MkDate(YearOf(chunk.qvalue.n), 1, 1))
    ELSE IF is_month(value) THEN [exc |-> "TypeError", mindate |-> 0, maxdate |-> 0]
    ELSE DateRange(chunk.qvalue.n, AddDay(chunk.qvalue.n))
min_max_dates(chunk) == min_max_dates_of(chunk, lower(chunk.value))

\* the clauses list of _queryset_datetime
Clause(qoperation, qvalue) == [qoperation |-> qoperation, qvalue |-> DateVal(qvalue)]
date_clauses(operation, mindate, maxdate) ==
    (IF operation = ">=" THEN <<Clause("__gte", mindate)>> ELSE <<>>)
    \o (IF operation = ">" THEN <<Clause("__gte", mindate)>> ELSE <<>>)
    \o (IF operation = "<=" THEN <<Clause("__lte", mindate)>> ELSE <<>>)
    \o (IF operation = "<" THEN <<Clause("__lte", mindate)>> ELSE <<>>)
    \o (IF operation = "=" THEN <<Clause("__gte", mindate), Clause("__lt", maxdate)>> ELSE <<>>)

\* one pass of the loop over clauses, qoperation already reversed if excluded
date_step(chunk, before, qoperation, qvalue) ==
    IF before.qobject = NoQueryset
    THEN [qobject |-> Leaf(chunk.qfield.field, qoperation, qvalue),
          filterstr |-> update_filterstr(chunk, before.filterstr, "", qoperation, qvalue)]
    ELSE IF chunk.exclude
    THEN [qobject |-> Or(before.qobject, Leaf(chunk.qfield.field, qoperation, qvalue)),
          filterstr |-> update_filterstr(chunk, before.filterstr, "OR", qoperation, qvalue)]
    ELSE [qobject |-> And(before.qobject, Leaf(chunk.qfield.field, qoperation, qvalue)),
          filterstr |-> update_filterstr(chunk, before.filterstr, "AND", qoperation, qvalue)]

\* the loop over clauses: the Q object and filterstr after the first k clauses
RECURSIVE date_loop(_, _, _)
date_loop(chunk, clauses, k) ==
    IF k = 0 THEN [qobject |-> NoQueryset, filterstr |-> chunk.filterstr]
    ELSE date_step(chunk, date_loop(chunk, clauses, k - 1),
                   IF chunk.exclude THEN REVERSEOP[clauses[k].qoperation] ELSE clauses[k].qoperation,
                   clauses[k].qvalue)

filter_qobject(done) == Built(Filter(<<done.qobject>>), done.filterstr)
date_queryset(chunk, clauses) == filter_qobject(date_loop(chunk, clauses, Len(clauses)))
queryset_datetime_of(chunk, mm) ==
    IF mm.exc # "" THEN Failed(mm.exc, chunk.filterstr)
    ELSE date_queryset(chunk, date_clauses(chunk.operation, mm.mindate, mm.maxdate))
queryset_datetime(chunk) == queryset_datetime_of(chunk, min_max_dates(chunk))

\* SearchChunk.queryset: every exception is logged and None is returned
chunk_queryset_built(built) ==
    IF built.exc # "" THEN [built EXCEPT !.exc = "", !.qs = NoQueryset]
    ELSE [built EXCEPT !.qs = And(basequeryset, built.qs)]
chunk_queryset_try(chunk) ==
    IF chunk.field.kind = "None" \/ chunk.field.s = <<>> THEN queryset_generic(chunk)
    ELSE IF chunk.qvalue.kind = "date" THEN queryset_datetime(chunk)
    ELSE queryset_advanced(chunk)
chunk_queryset(chunk) ==
    IF chunk.error # "" THEN Built(basequeryset, chunk.filterstr)
    ELSE chunk_queryset_built(chunk_queryset_try(chunk))

(***************************************************************************)
(* Search.                                                                 *)
(***************************************************************************)
\* shlex.split(s): whitespace-separated words, single and double quotes
\* group; an unclosed quote raises ValueError.  The search strings of the
\* model contain no backslash.
RECURSIVE shlex_run(_, _, _, _, _, _)
shlex_run(s, i, token, started, quote, tokens) ==
    IF i > Len(s)
    THEN IF quote # "" THEN [exc |-> "ValueError", tokens |-> <<>>]
         ELSE [exc |-> "", tokens |-> IF started THEN Append(tokens, token) ELSE tokens]
    ELSE IF quote # ""
    THEN IF s[i] = quote THEN shlex_run(s, i + 1, token, started, "", tokens)
         ELSE shlex_run(s, i + 1, Append(token, s[i]), started, quote, tokens)
    ELSE IF s[i] = " "
    THEN IF started THEN shlex_run(s, i + 1, <<>>, FALSE, "", Append(tokens, token))
         ELSE shlex_run(s, i + 1, <<>>, FALSE, "", tokens)
    ELSE IF s[i] \in {"'", "\""} THEN shlex_run(s, i + 1, token, TRUE, s[i], tokens)
    ELSE shlex_run(s, i + 1, Append(token, s[i]), TRUE, "", tokens)

shlex_split(s) == shlex_run(s, 1, <<>>, FALSE, "", <<>>)

Error(msg, detail) == [msg |-> msg, detail |-> detail]

\* _build_chunks: the chunks returned (None when an exception was caught)
\* and the errors list afterwards
NoChunks(errs) == [chunks |-> [kind |-> "None", list |-> <<>>],
                   errors |-> Append(errs, Error("Invalid query", <<>>))]
ignored_errors(stop) == [i \in 1..Len(stop) |-> Error("Part of the search is being ignored", stop[i])]
build_chunks_made(errs, made) ==
    IF \E i \in 1..Len(made) : made[i].exc # "" THEN NoChunks(errs)
    ELSE [chunks |-> [kind |-> "list", list |-> [i \in 1..Len(made) |-> made[i].chunk]],
          errors |-> errs]
build_chunks_kept(errs, kept) == build_chunks_made(errs, [i \in 1..Len(kept) |-> parse_chunkstr(kept[i])])
build_chunks_split(sp, errs) ==
    IF sp.exc # "" THEN NoChunks(errs)
    ELSE build_chunks_kept(errs \o ignored_errors(SelectSeq(sp.tokens, LAMBDA c : c \in STOPWORDS)),
                           SelectSeq(sp.tokens, LAMBDA c : c \notin STOPWORDS))
build_chunks(str, errs) == build_chunks_split(shlex_split(str), errs)

\* one pass of the loop of Search.queryset: queryset & None raises
queryset_step(before, k, cq) ==
    IF before.exc # "" THEN before
    ELSE [exc |-> IF cq.qs = NoQueryset THEN "TypeError" ELSE "",
          queryset |-> IF cq.qs = NoQueryset THEN before.queryset ELSE And(before.queryset, cq.qs),
          list |-> [before.list EXCEPT ![k].filterstr = cq.filterstr],
          parts |-> Append(before.parts, cq.qs)]

\* the loop of Search.queryset over the first k chunks
RECURSIVE queryset_loop(_, _)
queryset_loop(list, k) ==
    IF k = 0 THEN [exc |-> "", queryset |-> basequeryset, list |-> list, parts |-> <<>>]
    ELSE queryset_step(queryset_loop(list, k - 1), k, chunk_queryset(list[k]))

\* self.basequeryset.filter(pk=-1)
EmptyQueryset == Filter(<<Leaf("pk", "", NumVal(0 - Scale))>>)

\* [c.error for c in self.chunks if c.error]
chunk_errors(failed) == [i \in 1..Len(failed) |-> Error(failed[i].error, <<>>)]

(***************************************************************************)
(* The search strings.  A search string is written as one token of         *)
(* TokenPool beside tokens of Companions, separated by single spaces.      *)
(***************************************************************************)
TokenPool == {Chars(t) : t \in {
    "bob", "-bob", "5", "-5", "--5", "5.25", "5.0", "-5.25", "zz", "-",
    "and", "&&", "|", "AND", "Or", "\"\"", "\"bob", "'a b'",
    "name:bob", "-name:Bob", "name=bob", "name>bob", "name:[a,b]", "name=[Bob,amy5]", "tag:none",
    "price=5", "price:5", "price>=5", "price>5", "-price<5", "price=5.25", "price=1x5", "price=--5",
    "price=abc", "price=[1,2,3]", "price=[5,x]", "price>[1,2]", "price<=[1,2]", "price:[1,2]",
    "price=none", "price:NULL",
    "status=open", "status=bad", "status=none", "status:none", "status=[open,closed]",
    "created=2023", "-created=2023", "created>2023", "created>=2023", "created<2023",
    "created<=2023", "-created>2023", "-created<=2023", "created:2023", "created=soon",
    "created=jan", "created=dec", "-created=jan", "created=jan_2024", "created='jan 2024'",
    "created=2024-02-28", "-created=2024-02-28", "created>=2023-12-31", "created=None",
    "created=[2023,2024-02-28]", "created>[2023]",
    "active=yes", "active=maybe", "active:true", "-active=f", "active=NONE", "active=[t,f]",
    "bogus:1", "=5", "a:b=c", "age>=5", "age>5", "age=>5"}}

Companions == {Chars(t) : t \in {"name:bob", "-5", "or", "age>5", "created>=2023"}}

RECURSIVE join(_)
join(tokens) == IF tokens = <<>> THEN <<>>
                ELSE IF Len(tokens) = 1 THEN tokens[1]
                ELSE tokens[1] \o <<" ">> \o join(Tail(tokens))

(***************************************************************************)
(* State.                                                                  *)
(***************************************************************************)
VARIABLES
    searchstr,   \* Search.searchstr
    errors,      \* Search.errors
    chunks,      \* Search.chunks: "unset" before the first call, then a list or None
    cached,      \* Search._queryset
    parts,       \* what chunk.queryset() returned for each chunk the loop reached
    outcome,     \* the last call of queryset(): "" (none yet), "returned" or "raised"
    calls        \* calls of queryset() so far

vars == <<searchstr, errors, chunks, cached, parts, outcome, calls>>

Init ==
    /\ \E n \in 0..MaxTokens :
          IF n = 0 THEN searchstr = <<>>
          ELSE \E main \in TokenPool, rest \in [1..(n - 1) -> Companions], mainfirst \in BOOLEAN :
                  searchstr = IF mainfirst THEN join(<<main>> \o rest) ELSE join(rest \o <<main>>)
    /\ errors = <<>>
    /\ chunks = [kind |-> "unset", list |-> <<>>]
    /\ cached = NoQueryset
    /\ parts = <<>>
    /\ outcome = ""
    /\ calls = 0

\* the else branch of Search.queryset: the loop over the chunks
queryset_chunks(built, loop) ==
    /\ chunks' = [built.chunks EXCEPT !.list = loop.list]
    /\ parts' = loop.parts
    /\ IF loop.exc # ""
       THEN /\ errors' = built.errors
            /\ cached' = cached
            /\ outcome' = "raised"
       ELSE /\ errors' = chunk_errors(SelectSeq(loop.list, LAMBDA c : c.error # ""))
            /\ cached' = loop.queryset
            /\ outcome' = "returned"

\* the body of Search.queryset once _build_chunks has run
queryset_built(built) ==
    IF built.errors # <<>>
    THEN /\ chunks' = built.chunks
         /\ errors' = built.errors
         /\ cached' = EmptyQueryset
         /\ parts' = <<>>
         /\ outcome' = "returned"
    ELSE queryset_chunks(built, queryset_loop(built.chunks.list, Len(built.chunks.list)))

\* Search.queryset() while self._queryset is None
queryset_build ==
    /\ calls < MaxCalls
    /\ cached = NoQueryset
    /\ queryset_built(build_chunks(searchstr, errors))
    /\ calls' = calls + 1
    /\ UNCHANGED searchstr

\* Search.queryset() once self._queryset is set
queryset_cached ==
    /\ calls < MaxCalls
    /\ cached # NoQueryset
    /\ outcome' = "returned"
    /\ calls' = calls + 1
    /\ UNCHANGED <<searchstr, errors, chunks, cached, parts>>

Next == queryset_build \/ queryset_cached

Spec == Init /\ [][Next]_vars

TypeOK ==
    /\ calls \in 0..MaxCalls
    /\ outcome \in {"", "returned", "raised"}
    /\ chunks.kind \in {"unset", "list", "None"}

(***************************************************************************)
(* Properties.                                                             *)
(***************************************************************************)
Ops == {"=", ">=", "<=", ">", "<", ":"}
TypeMismatch == "Unknown typed field"
InvalidListOperation == "Invalid operation is using list search"

\* the chunk names a field of the schema
InSchema(c) == c.field.kind = "str" /\ c.field.s \in DOMAIN fields
TypeOf(c) == fields[c.field.s].fieldtype
\* the chunk is one the loop of queryset() reached: parts[i] is its queryset
Reached(i) == chunks.kind = "list" /\ i \in 1..Len(chunks.list) /\ i \in 1..Len(parts)
IsGeneric(c) == c.error = "" /\ c.field.kind = "None"
IsDateChunk(c) == c.error = "" /\ InSchema(c) /\ c.qvalue.kind = "date"
\* the tokens of the search string that are not dropped as stop words
Tokens == shlex_split(searchstr).tokens

\* C1: whenever a chunk of the search carries an error, queryset() returns
\* the always-empty queryset together with a non-empty error list.
C1_ErrorsGiveEmptyQueryset ==
    (outcome = "returned" /\ \E i \in 1..Len(chunks.list) : chunks.list[i].error # "")
        => (errors # <<>> /\ RowsOf(cached) = {})

C3_ParsedAsClaimed(token, r) ==
    LET exclude == token # <<>> /\ token[1] = "-"
        rest    == IF exclude THEN Tail(token) ELSE token
        present == {o \in Ops : Contains(rest, Chars(o))}
    IN  /\ r.exc # "IndexError"
        /\ r.chunk.exclude = exclude
        /\ IF present = {}
           THEN r.chunk.field = PyNone /\ r.chunk.operation = ":" /\ r.chunk.value = rest
           ELSE \E o \in present :
                   /\ \A o2 \in present : Len(o2) <= Len(o)
                   /\ r.chunk.operation = o
                   /\ r.chunk.field = StrVal(SubSeq(rest, 1, Find(rest, Chars(o)) - 1))
                   /\ r.chunk.value = SubSeq(rest, Find(rest, Chars(o)) + Len(o), Len(rest))

\* what the constructor gave for the i-th kept token: the chunk of the
\* state when the list was built, else the constructor's own result
C3_Constructed(kept, i) ==
    IF chunks.kind = "list" THEN [exc |-> "", chunk |-> chunks.list[i]]
    ELSE parse_chunkstr(kept[i])

\* C3: every token is parsed into exclude flag, field, operator and raw
\* value as described: leading `-` dropped, generic when no operator occurs,
\* else split at the first occurrence of a longest operator that occurs.
C3_EveryTokenParsed ==
    LET kept == SelectSeq(Tokens, LAMBDA t : t \notin STOPWORDS)
    IN  outcome # "" => \A i \in 1..Len(kept) : C3_ParsedAsClaimed(kept[i], C3_Constructed(kept, i))

\* C3 restricted to the tokens that are not empty
C3_NonEmptyTokensParsed ==
    LET kept == SelectSeq(Tokens, LAMBDA t : t \notin STOPWORDS)
    IN  outcome # "" => \A i \in 1..Len(kept) :
                            kept[i] # <<>> => C3_ParsedAsClaimed(kept[i], C3_Constructed(kept, i))

\* the queryset of an advanced chunk testing one lookup
C_AdvancedQueryset(c, lookup, value) ==
    And(basequeryset, IF c.exclude THEN Exclude(<<Leaf(c.qfield.field, lookup, value)>>)
                      ELSE Filter(<<Leaf(c.qfield.field, lookup, value)>>))

C5_Coercion(f) ==
    IF f.modifier # "" THEN f.modifier
    ELSE IF f.fieldtype = FIELDTYPES.BOOL THEN "modifier_bool"
    ELSE IF f.fieldtype = FIELDTYPES.NUM THEN "modifier_numeric"
    ELSE IF f.fieldtype = FIELDTYPES.DATE THEN "modifier_date"
    ELSE "DEFAULT_MODIFIER"

C5_IsList(c) == Len(c.value) >= 2 /\ c.value[1] = "[" /\ c.value[Len(c.value)] = "]"

\* a list chunk with `=`: the In test on the set of the coerced members,
\* or the error of a member that cannot be coerced
C5_EqList(c, i) ==
    LET members == split_sep(rstrip(lstrip(c.value, "["), "]"), ",")
        coerced == [k \in 1..Len(members) |-> CallModifier(C5_Coercion(fields[c.field.s]), members[k])]
    IN  IF \A k \in 1..Len(members) : coerced[k].exc = ""
        THEN /\ c.error = ""
             /\ c.qoperation = "__in"
             /\ c.qvalue = SetVal({coerced[k].val : k \in 1..Len(members)})
             /\ Reached(i) => parts[i] = C_AdvancedQueryset(c, "__in", c.qvalue)
        ELSE /\ \E k \in 1..Len(members) : coerced[k].exc # "" /\ c.error = coerced[k].msg
             /\ Reached(i) => parts[i] = basequeryset

C6_MonthStart(c, v) ==
    LET first == MkDate(YearOf(c.qvalue.n), MonthOf(c.qvalue.n), 1)
        yearwritten == \E k \in 1..Len(split_ws(v)) : is_year(split_ws(v)[k])
    IN  IF ~yearwritten /\ first > Today THEN AddYears(first, 0 - 1) ELSE first

\* the range C6 describes, decided on the lowercased value with
\* underscores replaced by spaces
C6_ClaimedRange(c) ==
    LET v == replace(lower(c.value), "_", " ")
    IN  IF is_year(v)
        THEN [mindate |-> MkDate(DigitsVal(v), 1, 1), maxdate |-> MkDate(DigitsVal(v) + 1, 1, 1)]
        ELSE IF is_month(v)
        THEN [mindate |-> C6_MonthStart(c, v), maxdate |-> AddMonth(C6_MonthStart(c, v))]
        ELSE [mindate |-> c.qvalue.n, maxdate |-> AddDay(c.qvalue.n)]

\* C6: every date chunk resolves to the year, month or day range its value
\* describes; read off the two bounds of a non-excluded `=` chunk.
C6_DateRangeByGranularity ==
    \A i \in 1..Len(chunks.list) :
        LET c == chunks.list[i]
            r == C6_ClaimedRange(c)
        IN  (Reached(i) /\ IsDateChunk(c) /\ c.operation = "=" /\ ~c.exclude) =>
               parts[i] = And(basequeryset,
                              Filter(<<And(Leaf(c.qfield.field, "__gte", DateVal(r.mindate)),
                                           Leaf(c.qfield.field, "__lt", DateVal(r.maxdate)))>>))

\* the Q object C7 describes for a date chunk with range [mindate, maxdate)
C7_ClaimedQ(c, mindate, maxdate) ==
    LET p == c.qfield.field
    IN  IF ~c.exclude
        THEN CASE c.operation = "=" -> And(Leaf(p, "__gte", DateVal(mindate)), Leaf(p, "__lt", DateVal(maxdate)))
               [] c.operation \in {">", ">="} -> Leaf(p, "__gte", DateVal(mindate))
               [] c.operation \in {"<", "<="} -> Leaf(p, "__lte", DateVal(mindate))
        ELSE CASE c.operation = "=" -> Or(Leaf(p, "__lt", DateVal(mindate)), Leaf(p, "__gte", DateVal(maxdate)))
               [] c.operation \in {">", ">="} -> Leaf(p, "__lt", DateVal(mindate))
               [] c.operation \in {"<", "<="} -> Leaf(p, "__gt", DateVal(mindate))

\* the rows the non-excluded predicate of C7 selects
C7_PlainRows(c, mindate, maxdate) ==
    {r \in Rows : LET d == r[c.qfield.field]
                  IN  /\ d.kind = "date"
                      /\ CASE c.operation = "=" -> mindate <= d.n /\ d.n < maxdate
                           [] c.operation \in {">", ">="} -> mindate <= d.n
                           [] c.operation \in {"<", "<="} -> d.n <= mindate}

C7_Clauses(i) ==
    LET c == chunks.list[i]
        mm == min_max_dates(c)
    IN  parts[i] = And(basequeryset, Filter(<<C7_ClaimedQ(c, mm.mindate, mm.maxdate)>>))

\* C7 as stated: the clauses of a date chunk are those listed, complemented
\* and OR-joined when excluded, and the excluded predicate selects exactly
\* the rows the non-excluded predicate rejects.
C7_ExcludedDateIsComplement ==
    \A i \in 1..Len(chunks.list) :
        LET c == chunks.list[i]
            mm == min_max_dates(c)
        IN  (Reached(i) /\ IsDateChunk(c) /\ parts[i] # NoQueryset) =>
               /\ C7_Clauses(i)
               /\ RowsOf(parts[i]) = IF c.exclude THEN Rows \ C7_PlainRows(c, mm.mindate, mm.maxdate)
                                     ELSE C7_PlainRows(c, mm.mindate, mm.maxdate)

\* C7 amended: the clauses are those listed, and among the rows whose date
\* is not NULL the excluded predicate selects exactly the rows the
\* non-excluded predicate rejects; a row whose date is NULL is selected by
\* neither.
C7_ExcludedDateIsComplementOnNonNull ==
    \A i \in 1..Len(chunks.list) :
        LET c == chunks.list[i]
            mm == min_max_dates(c)
            dated == {r \in Rows : r[c.qfield.field].kind = "date"}
        IN  (Reached(i) /\ IsDateChunk(c) /\ parts[i] # NoQueryset) =>
               /\ C7_Clauses(i)
               /\ RowsOf(parts[i]) = IF c.exclude THEN dated \ C7_PlainRows(c, mm.mindate, mm.maxdate)
                                     ELSE C7_PlainRows(c, mm.mindate, mm.maxdate)

C7_Witness ==
    /\ outcome = "returned"
    /\ \E i \in 1..Len(chunks.list) :
          LET c == chunks.list[i]
          IN  /\ Reached(i) /\ IsDateChunk(c) /\ c.exclude /\ c.operation = "="
              /\ parts[i] = And(basequeryset,
                                Filter(<<Or(Leaf("created_at", "__lt", DateVal(MkDate(2023, 1, 1))),
                                            Leaf("created_at", "__gte", DateVal(MkDate(2024, 1, 1))))>>))
              /\ RowsOf(parts[i]) # {} /\ RowsOf(parts[i]) # Rows

\* the subqueries reduce() combined into a queryset, k of them
RECURSIVE C_Unreduce(_, _)
C_Unreduce(qs, k) == IF k = 1 THEN <<qs>> ELSE C_Unreduce(qs.kids[1], k - 1) \o <<qs.kids[2]>>

\* the value is a decimal number
C8_IsNumber(v) ==
    LET body == IF v # <<>> /\ v[1] = "-" THEN Tail(v) ELSE v
        dot  == Find(body, <<".">>)
    IN  IF dot = 0 THEN AllDigits(body)
        ELSE /\ \A k \in 1..Len(body) : k # dot => IsDigit(body[k])
             /\ Len(body) > 1
C8_Abs(v) == LET body == IF v[1] = "-" THEN Tail(v) ELSE v
                 dot == Find(body, <<".">>)
             IN  IF dot = 0 THEN DigitsVal(body) * Scale
                 ELSE DigitsVal(SubSeq(body, 1, dot - 1)) * Scale
                      + (DigitsVal(SubSeq(body, dot + 1, Len(body))) * Scale) \div (10 ^ (Len(body) - dot))
C8_Decimals(v) == IF Find(v, <<".">>) = 0 THEN 0 ELSE Len(v) - Find(v, <<".">>)

\* the window of C8 on one field: [lo, hi) and (-hi, -lo]
C8_Window(path, lo, hi) ==
    Or(Filter(<<Leaf(path, "__gte", NumVal(lo)), Leaf(path, "__lt", NumVal(hi))>>),
       Filter(<<Leaf(path, "__lte", NumVal(0 - lo)), Leaf(path, "__gt", NumVal(0 - hi))>>))

\* the subqueries of the numeric fields in the queryset of generic chunk i
C8_NumSubqueries(i) ==
    LET nstr == Len(FieldsOfType(FIELDTYPES.STR))
        nnum == Len(FieldsOfType(FIELDTYPES.NUM))
    IN  SubSeq(C_Unreduce(parts[i].kids[2], nstr + nnum), nstr + 1, nstr + nnum)

C8_WindowByDecimals(i) ==
    LET c == chunks.list[i]
        numfields == FieldsOfType(FIELDTYPES.NUM)
    IN  \A k \in 1..Len(numfields) :
            C8_NumSubqueries(i)[k] =
                C8_Window(numfields[k].field, C8_Abs(c.value),
                          C8_Abs(c.value) + Scale \div (10 ^ C8_Decimals(c.value)))

\* C8 as stated: a generic numeric token gives every Numeric field the
\* window of width 10^-d at its absolute value, and `5.0` gives the window
\* of `5`.
C8_NumericWindowAndFiveZero ==
    \A i \in 1..Len(chunks.list) :
        LET c == chunks.list[i]
            numfields == FieldsOfType(FIELDTYPES.NUM)
        IN  (Reached(i) /\ IsGeneric(c) /\ C8_IsNumber(c.value) /\ parts[i] # NoQueryset) =>
               /\ C8_WindowByDecimals(i)
               /\ c.value = Chars("5.0") =>
                     \A k \in 1..Len(numfields) :
                        C8_NumSubqueries(i)[k] = C8_Window(numfields[k].field, 5 * Scale, 6 * Scale)

\* C8 amended: a generic numeric token gives every Numeric field the window
\* of width 10^-d at its absolute value; `5.0` has one decimal and gives
\* [5.0, 5.1) and (-5.1, -5.0], narrower than the window of `5`.
C8_NumericWindow ==
    \A i \in 1..Len(chunks.list) :
        LET c == chunks.list[i]
            numfields == FieldsOfType(FIELDTYPES.NUM)
        IN  (Reached(i) /\ IsGeneric(c) /\ C8_IsNumber(c.value) /\ parts[i] # NoQueryset) =>
               /\ C8_WindowByDecimals(i)
               /\ c.value = Chars("5") =>
                     \A k \in 1..Len(numfields) :
                        C8_NumSubqueries(i)[k] = C8_Window(numfields[k].field, 5 * Scale, 6 * Scale)
               /\ c.value = Chars("5.0") =>
                     \A k \in 1..Len(numfields) :
                        C8_NumSubqueries(i)[k] =
                            C8_Window(numfields[k].field, 5 * Scale, (51 * Scale) \div 10)
               /\ c.value = Chars("5.25") =>
                     \A k \in 1..Len(numfields) :
                        C8_NumSubqueries(i)[k] =
                            C8_Window(numfields[k].field, (525 * Scale) \div 100, (526 * Scale) \div 100)

C8_Witness ==
    /\ outcome = "returned"
    /\ \E i \in 1..Len(chunks.list) :
          /\ Reached(i) /\ IsGeneric(chunks.list[i]) /\ chunks.list[i].value = Chars("5.25")
          /\ C8_NumSubqueries(i)[1] = C8_Window("price", (525 * Scale) \div 100, (526 * Scale) \div 100)

\* C9: every token whose lowercase form is a stop word is reported as
\* ignored and never becomes a chunk.
C9_StopWordsAnyCase ==
    outcome # "" =>
        \A k \in 1..Len(Tokens) :
            lower(Tokens[k]) \in {Chars("and"), Chars("&&"), Chars("&"), Chars("or"), Chars("||"), Chars("|")} =>
               /\ \E e \in 1..Len(errors) :
                     errors[e] = Error("Part of the search is being ignored", Tokens[k])
               /\ \A i \in 1..Len(chunks.list) : chunks.list[i].chunkstr # Tokens[k]

\* a String field of the row contains the value
C10_StringHit(row, v) ==
    \E k \in 1..Len(FieldsOfType(FIELDTYPES.STR)) :
        LET col == row[FieldsOfType(FIELDTYPES.STR)[k].field]
        IN  col.kind = "str" /\ Contains(lower(col.s), lower(v))

\* a Numeric field of the row lies in the tolerance window of the value
C10_NumericHit(row, v) ==
    /\ C8_IsNumber(v)
    /\ \E k \in 1..Len(FieldsOfType(FIELDTYPES.NUM)) :
          LET col == row[FieldsOfType(FIELDTYPES.NUM)[k].field]
              lo  == C8_Abs(v)
              hi  == C8_Abs(v) + Scale \div (10 ^ C8_Decimals(v))
          IN  col.kind = "num" /\ ((lo <= col.n /\ col.n < hi) \/ (0 - hi < col.n /\ col.n <= 0 - lo))

\* C10: a generic token selects the rows some field matches; an excluded
\* generic token selects exactly the rows no field matches.
C10_ExcludedGenericFailsEveryField ==
    \A i \in 1..Len(chunks.list) :
        LET c == chunks.list[i]
        IN  (Reached(i) /\ IsGeneric(c) /\ parts[i] # NoQueryset) =>
               RowsOf(parts[i]) =
                  IF c.exclude
                  THEN {r \in Rows : ~C10_StringHit(r, c.value) /\ ~C10_NumericHit(r, c.value)}
                  ELSE {r \in Rows : C10_StringHit(r, c.value) \/ C10_NumericHit(r, c.value)}

\* C10 restricted to the generic tokens that are not excluded
C10_PlainGenericIsUnion ==
    \A i \in 1..Len(chunks.list) :
        LET c == chunks.list[i]
        IN  (Reached(i) /\ IsGeneric(c) /\ ~c.exclude /\ parts[i] # NoQueryset) =>
               RowsOf(parts[i]) = {r \in Rows : C10_StringHit(r, c.value) \/ C10_NumericHit(r, c.value)}

====
